---- MODULE Spec2Model ----
(***************************************************************************)
(* A model of DLO-HiC-Tools:                                               *)
(*   - dlo_hic/hicmatrix.py: HicMatrix, HicChrMatrix (SpecMatrix,          *)
(*     SpecArith, SpecOps and SpecLocate)                                  *)
(*   - dlo_hic/tools/helper/extract_rest_sites.py (SpecExtract, and        *)
(*     SpecExtractFair under a fair scheduler)                             *)
(*   - dlo_hic/tools/main_process/bedpe2pairs.py and                       *)
(*     dlo_hic/utils/wrap/tabix.py (SpecPairs)                             *)
(*   - either command-line tool, run once (SpecTools)                      *)
(***************************************************************************)
EXTENDS Integers, Sequences, FiniteSets, TLC

(***************************************************************************)
(* Bounds of the model.                                                    *)
(***************************************************************************)
\* chromosomes in a chromosome length table
MaxChrs == 2
\* length of a chromosome, in base pairs
MaxLen == 2
\* bin size of a HicChrMatrix
MaxBinSize == 2
\* calls made on one HicChrMatrix after its construction
MaxCalls == 1
\* rows and columns of an array handed to HicMatrix(...)
MaxDim == 2

\* chromosomes of the reference genome given to extract_rest_sites
MaxRefChrs == 2
\* records the whole reference yields: matches of the motif plus matches of
\* its reverse complement
MaxMatches == 2
\* value of --processes
MaxProcesses == 2

\* records of the BEDPE file given to bedpe2pairs
MaxBedpe == 2
\* calls made on one matrix
MaxOps == 2
\* records of the whole reference in the runs under a fair scheduler
MaxFairMatches == 1

VARIABLES
    pc,        \* matrix library: "new" before HicChrMatrix(...), then "ready" or "error"
    chr_len,   \* the chromosome length table given to HicChrMatrix.__init__
    bin_size,  \* the bin size given to HicChrMatrix.__init__
    objs,      \* the wrappers alive: slot name -> attributes of the object
    heap,      \* the numpy arrays alive: sequence of [rows, cols, kind, dtype, cells]
    last,      \* the last call made and how it ended
    ncalls     \* number of calls made after construction

VARIABLES
    fasta,           \* extract_rest_sites: per chromosome, the matches of rest and of rest_rc
    rest,          \* the motif: a sequence of letters
    processes,     \* --processes
    task_queue,    \* chromosome names waiting for a worker, in queue order
    output_queue,  \* records waiting for the writer (a bag: record -> copies)
    count_queue,   \* match counts reported by the workers (a bag)
    workers,       \* the worker processes: a bag of [pc, chr_, c, k]
    writer,        \* the outputer process: [pc, record, buf, sigterm]
    tmp,           \* the lines of the temporary file on disk (a bag)
    main,          \* the main process: [pc, c]
    files,         \* output, output.gz and the index: [out, out_lines, gz, idx]
    scanned,       \* chromosome -> times a worker pulled it
    put_log        \* record -> times a worker put it on output_queue

VARIABLES
    bedpe,              \* bedpe2pairs: the records of the input BEDPE file
    keep,               \* --keep
    remove_redundancy,  \* --remove-redundancy
    conv,               \* the converter: [pc, raised]
    line_iter,          \* the records line_iter will yield
    pfiles              \* tmp, pairs, pairs.gz and the index: existence and lines

VARIABLES
    cmd_log        \* the external commands run so far: sequence of [cmd, status]

mvars == <<pc, chr_len, bin_size, objs, heap, last, ncalls>>

evars == <<fasta, rest, processes, task_queue, output_queue, count_queue,
           workers, writer, tmp, main, files, scanned, put_log>>

pvars == <<bedpe, keep, remove_redundancy, conv, line_iter, pfiles>>

vars == <<mvars, evars, pvars, cmd_log>>

(***************************************************************************)
(* Helpers: Python dictionaries and numpy arrays.                          *)
(***************************************************************************)
\* d[k] = v on a dict
DictSet(d, k, v) == [x \in (DOMAIN d) \cup {k} |-> IF x = k THEN v ELSE d[x]]

EmptyDict == [x \in {} |-> 0]

RECURSIVE SumSeq(_)
SumSeq(s) == IF s = <<>> THEN 0 ELSE Head(s) + SumSeq(Tail(s))

(***************************************************************************)
(* The numbers in the cells of an array.  <<n, d>> with d > 0 is the       *)
(* number n/d in lowest terms; <<1, 0>>, <<-1, 0>> and <<0, 0>> are the    *)
(* floating-point values inf, -inf and nan.                                *)
(***************************************************************************)
Num(i) == <<i, 1>>

Inf == <<1, 0>>
NegInf == <<-1, 0>>
NaN == <<0, 0>>

Abs(i) == IF i < 0 THEN -i ELSE i

RECURSIVE Gcd(_, _)
Gcd(a, b) == IF b = 0 THEN a ELSE Gcd(b, a % b)

\* n/d in lowest terms, d > 0
Reduce(n, d) ==
    LET g == Gcd(Abs(n), d)
    IN  IF n < 0 THEN <<-(Abs(n) \div g), d \div g>> ELSE <<n \div g, d \div g>>

NumAdd(x, y) == Reduce(x[1] * y[2] + y[1] * x[2], x[2] * y[2])
NumSub(x, y) == Reduce(x[1] * y[2] - y[1] * x[2], x[2] * y[2])
NumMul(x, y) == Reduce(x[1] * y[1], x[2] * y[2])

\* np.zeros([n, m], dtype=np.float)
np_zeros(n, m) ==
    [rows |-> n, cols |-> m, kind |-> "ndarray", dtype |-> "float",
     cells |-> [p \in (0 .. n - 1) \X (0 .. m - 1) |-> Num(0)]]

\* a reference to (a window of) an array of the heap: rows r0 .. r1-1 and
\* columns c0 .. c1-1 of heap[base]
WholeArray(h, id) ==
    [base |-> id, r0 |-> 0, r1 |-> h[id].rows, c0 |-> 0, c1 |-> h[id].cols]

Rows(ref) == ref.r1 - ref.r0
Cols(ref) == ref.c1 - ref.c0
Shape(ref) == <<Rows(ref), Cols(ref)>>
Cell(h, ref, i, j) == h[ref.base].cells[<<ref.r0 + i, ref.c0 + j>>]
InBounds(ref, i, j) == i >= 0 /\ i < Rows(ref) /\ j >= 0 /\ j < Cols(ref)

\* the increments passed to locate
Increments == {1, 2}

\* the chromosome names of a table, in table order
AllNames == <<"chr1", "chr2", "chr3", "chr4">>
ChrNames == {AllNames[i] : i \in 1 .. MaxChrs}

\* the chromosome length tables: i-th entry (AllNames[i], length)
Tables ==
    UNION {{[i \in 1 .. n |-> [name |-> AllNames[i], len |-> f[i]]] :
                f \in [1 .. n -> 0 .. MaxLen]} : n \in 0 .. MaxChrs}

(***************************************************************************)
(* HicChrMatrix.__init__                                                   *)
(***************************************************************************)
\* lines 124-127: the bin count of one chromosome
NumBins(len_, bs) ==
    IF len_ % bs = 0 THEN len_ \div bs ELSE (len_ \div bs) + 1

\* the loop without line 133: pos never advances
RECURSIVE BuildAxisNoAdvance(_, _, _)
BuildAxisNoAdvance(table, bs, st) ==
    IF table = <<>> \/ st.raised # "none" THEN st
    ELSE LET e == Head(table)
             nb == NumBins(e.len, bs)
         IN  IF nb = 0
             THEN [st EXCEPT !.num_bins = nb, !.bound = TRUE,
                             !.raised = "NameError"]
             ELSE BuildAxisNoAdvance(Tail(table), bs,
                    [axis |-> DictSet(st.axis, e.name,
                                      <<st.pos, st.pos + nb - 1>>),
                     pos |-> st.pos,
                     chromosomes |-> Append(st.chromosomes, e.name),
                     lengths |-> Append(st.lengths, nb),
                     num_bins |-> nb, bound |-> TRUE, raised |-> "none"])

\* lines 121-136: the loop over the table.  st.bound says whether the local
\* name num_bins is bound; the too-short branch evaluates sys.stderr, and the
\* module never imports sys, so it raises NameError.
RECURSIVE BuildAxis(_, _, _)
BuildAxis(table, bs, st) ==
    IF table = <<>> \/ st.raised # "none" THEN st
    ELSE LET e == Head(table)
             nb == NumBins(e.len, bs)
         IN  IF nb = 0
             THEN [st EXCEPT !.num_bins = nb, !.bound = TRUE,
                             !.raised = "NameError"]
             ELSE BuildAxis(Tail(table), bs,
                    [axis |-> DictSet(st.axis, e.name,
                                      <<st.pos, st.pos + nb - 1>>),
                     pos |-> st.pos + nb,
                     chromosomes |-> Append(st.chromosomes, e.name),
                     lengths |-> Append(st.lengths, nb),
                     num_bins |-> nb, bound |-> TRUE, raised |-> "none"])

\* line 144: the dimension handed to np.zeros is the local name num_bins, the
\* bin count of the last chromosome of the table
MatrixDim(st) == st.num_bins

\* the constructor with line 118 setting the flag
HicChrMatrixInitIced(table, bs, id) ==
    LET st == BuildAxis(table, bs,
                 [axis |-> EmptyDict, pos |-> 0, chromosomes |-> <<>>,
                  lengths |-> <<>>, num_bins |-> 0, bound |-> FALSE,
                  raised |-> "none"])
        arr == np_zeros(MatrixDim(st), MatrixDim(st))
    IN  IF st.raised # "none" THEN [raised |-> st.raised]
        ELSE IF ~st.bound THEN [raised |-> "UnboundLocalError"]
        ELSE [raised |-> "none",
              array |-> arr,
              obj |-> [cls |-> "HicChrMatrix",
                       bin_size |-> bs, chr_len |-> table, iced |-> TRUE,
                       axis |-> st.axis, chromosomes |-> st.chromosomes,
                       lengths |-> st.lengths,
                       num_bins |-> SumSeq(st.lengths),
                       matrix |-> [base |-> id, r0 |-> 0, r1 |-> arr.rows,
                                   c0 |-> 0, c1 |-> arr.cols]]]

\* The whole constructor: the outcome, the attributes of the new object and
\* the array it allocates (id is the heap slot of that array).
HicChrMatrixInit(table, bs, id) ==
    LET st == BuildAxis(table, bs,
                 [axis |-> EmptyDict, pos |-> 0, chromosomes |-> <<>>,
                  lengths |-> <<>>, num_bins |-> 0, bound |-> FALSE,
                  raised |-> "none"])
        arr == np_zeros(MatrixDim(st), MatrixDim(st))
    IN  IF st.raised # "none" THEN [raised |-> st.raised]
        ELSE IF ~st.bound THEN [raised |-> "UnboundLocalError"]
        ELSE [raised |-> "none",
              array |-> arr,
              obj |-> [cls |-> "HicChrMatrix",
                       bin_size |-> bs, chr_len |-> table, iced |-> FALSE,
                       axis |-> st.axis, chromosomes |-> st.chromosomes,
                       lengths |-> st.lengths,
                       num_bins |-> SumSeq(st.lengths),
                       matrix |-> [base |-> id, r0 |-> 0, r1 |-> arr.rows,
                                   c0 |-> 0, c1 |-> arr.cols]]]

(***************************************************************************)
(* HicChrMatrix.locate                                                     *)
(***************************************************************************)
\* a[i, j] = val in place of +=
SetAt(h, ref, i, j, val) ==
    IF ~InBounds(ref, i, j) THEN [raised |-> "IndexError", heap |-> h]
    ELSE [raised |-> "none",
          heap |-> [h EXCEPT ![ref.base].cells[<<ref.r0 + i, ref.c0 + j>>]
                                 = Num(val)]]

\* a[i, j] += val on the array behind ref: IndexError outside the array
AddAt(h, ref, i, j, val) ==
    IF ~InBounds(ref, i, j) THEN [raised |-> "IndexError", heap |-> h]
    ELSE [raised |-> "none",
          heap |-> [h EXCEPT ![ref.base].cells[<<ref.r0 + i, ref.c0 + j>>]
                                 = NumAdd(@, Num(val))]]

\* line 203 only: the mirror cell is not written
locate_one_sided(self, h, chr_x, x, chr_y, y, val) ==
    IF chr_x \notin DOMAIN self.axis \/ chr_y \notin DOMAIN self.axis
    THEN [raised |-> "KeyError", heap |-> h]
    ELSE AddAt(h, self.matrix, (x \div self.bin_size) + self.axis[chr_x][1],
               (y \div self.bin_size) + self.axis[chr_y][1], val)

\* lines 201-202 without the chromosome's first bin: the offsets inside the
\* chromosomes are used as absolute bins
locate_no_offset(self, h, chr_x, x, chr_y, y, val) ==
    IF chr_x \notin DOMAIN self.axis \/ chr_y \notin DOMAIN self.axis
    THEN [raised |-> "KeyError", heap |-> h]
    ELSE LET abs_x == x \div self.bin_size
             abs_y == y \div self.bin_size
             s1 == AddAt(h, self.matrix, abs_x, abs_y, val)
         IN  IF s1.raised # "none" THEN s1
             ELSE AddAt(s1.heap, self.matrix, abs_y, abs_x, val)

\* lines 195-204
\* lines 195-196 as self.axis.get(name, (0, 0)): a name the axis does not
\* have is taken for the first bin
locate_default_span(self, h, chr_x, x, chr_y, y, val) ==
    LET chr_span_x == IF chr_x \in DOMAIN self.axis THEN self.axis[chr_x]
                      ELSE <<0, 0>>
        chr_span_y == IF chr_y \in DOMAIN self.axis THEN self.axis[chr_y]
                      ELSE <<0, 0>>
        abs_x == (x \div self.bin_size) + chr_span_x[1]
        abs_y == (y \div self.bin_size) + chr_span_y[1]
        s1 == AddAt(h, self.matrix, abs_x, abs_y, val)
    IN  IF s1.raised # "none" THEN s1
        ELSE AddAt(s1.heap, self.matrix, abs_y, abs_x, val)

locate(self, h, chr_x, x, chr_y, y, val) ==
    IF chr_x \notin DOMAIN self.axis THEN [raised |-> "KeyError", heap |-> h]
    ELSE IF chr_y \notin DOMAIN self.axis
    THEN [raised |-> "KeyError", heap |-> h]
    ELSE LET chr_span_x == self.axis[chr_x]
             chr_span_y == self.axis[chr_y]
             offset_x == x \div self.bin_size
             offset_y == y \div self.bin_size
             abs_x == offset_x + chr_span_x[1]
             abs_y == offset_y + chr_span_y[1]
             s1 == AddAt(h, self.matrix, abs_x, abs_y, val)
         IN  IF s1.raised # "none" THEN s1
             ELSE AddAt(s1.heap, self.matrix, abs_y, abs_x, val)

(***************************************************************************)
(* The matrix library as a state machine.                                  *)
(***************************************************************************)
NoCall == [op |-> "none", raised |-> "none"]

\* the matrix library is not in use
MatrixIdle ==
    /\ pc = "idle" /\ chr_len = <<>> /\ bin_size = 1 /\ objs = EmptyDict
    /\ heap = <<>> /\ last = NoCall /\ ncalls = 0

\* extract_rest_sites is not running
ExtractIdle ==
    /\ fasta = <<>> /\ rest = <<>> /\ processes = 1
    /\ task_queue = <<>> /\ output_queue = EmptyDict /\ count_queue = EmptyDict
    /\ workers = EmptyDict
    /\ writer = [pc |-> "idle", record |-> <<>>, buf |-> EmptyDict,
                 sigterm |-> FALSE]
    /\ tmp = EmptyDict
    /\ main = [pc |-> "idle", c |-> 0, raised |-> "none"]
    /\ files = [out |-> FALSE, out_lines |-> <<>>, gz |-> FALSE, idx |-> FALSE]
    /\ scanned = <<>> /\ put_log = EmptyDict

\* bedpe2pairs is not running
NoPairsFiles ==
    [tmp |-> FALSE, tmp_lines |-> <<>>, pairs |-> FALSE, pairs_lines |-> <<>>,
     gz |-> FALSE, idx |-> FALSE]

PairsIdle ==
    /\ bedpe = <<>> /\ keep = FALSE /\ remove_redundancy = FALSE
    /\ conv = [pc |-> "idle", raised |-> "none"]
    /\ line_iter = <<>>
    /\ pfiles = NoPairsFiles

InitMatrix ==
    /\ pc = "new"
    /\ chr_len \in Tables
    /\ bin_size \in 1 .. MaxBinSize
    /\ objs = EmptyDict
    /\ heap = <<>>
    /\ last = NoCall
    /\ ncalls = 0
    /\ ExtractIdle
    /\ PairsIdle
    /\ cmd_log = <<>>

\* hm = HicChrMatrix(chr_len, bin_size)
Construct ==
    /\ pc = "new"
    /\ LET r == HicChrMatrixInit(chr_len, bin_size, Len(heap) + 1)
       IN  /\ last' = [op |-> "init", raised |-> r.raised]
           /\ IF r.raised = "none"
              THEN /\ pc' = "ready"
                   /\ heap' = Append(heap, r.array)
                   /\ objs' = DictSet(objs, "hm", r.obj)
              ELSE /\ pc' = "error"
                   /\ UNCHANGED <<heap, objs>>
    /\ UNCHANGED <<chr_len, bin_size, ncalls, evars, pvars, cmd_log>>

\* the length the table gives for a chromosome
LenOf(name) ==
    LET i == CHOOSE k \in 1 .. Len(chr_len) : chr_len[k].name = name
    IN  chr_len[i].len

\* the positions tried on a chromosome: every position inside it and the
\* first one past its end; position 0 on a name the table does not have
Positions(name) ==
    IF \E k \in 1 .. Len(chr_len) : chr_len[k].name = name
    THEN 0 .. LenOf(name)
    ELSE {0}

\* hm.locate(chr_x, x, chr_y, y, val)
Locate ==
    /\ pc = "ready"
    /\ ncalls < MaxCalls
    /\ \E chr_x \in ChrNames, chr_y \in ChrNames, val \in Increments :
       \E x \in Positions(chr_x), y \in Positions(chr_y) :
          LET r == locate(objs["hm"], heap, chr_x, x, chr_y, y, val)
          IN  /\ heap' = r.heap
              /\ last' = [op |-> "locate", raised |-> r.raised,
                          chr_x |-> chr_x, x |-> x, chr_y |-> chr_y,
                          y |-> y, val |-> val]
    /\ ncalls' = ncalls + 1
    /\ UNCHANGED <<pc, chr_len, bin_size, objs, evars, pvars, cmd_log>>

NextMatrix ==
    \/ Construct
    \/ Locate

SpecMatrix == InitMatrix /\ [][NextMatrix]_vars

(***************************************************************************)
(* Claims about HicChrMatrix construction and locate.                      *)
(***************************************************************************)
hm == objs["hm"]
hmArray == heap[hm.matrix.base]
Fresh == pc = "ready" /\ last.op = "init"

\* C1: a freshly constructed HicChrMatrix has num_bins = sum of lengths =
\* rows of matrix = columns of matrix, and every cell is zero.
C1_FreshDimensions ==
    Fresh =>
        /\ hm.num_bins = SumSeq(hm.lengths)
        /\ hm.num_bins = hmArray.rows
        /\ hm.num_bins = hmArray.cols
        /\ \A p \in DOMAIN hmArray.cells : hmArray.cells[p] = Num(0)

\* C5: after any sequence of locate calls the matrix is symmetric.
C5_Symmetric ==
    pc = "ready" =>
        /\ hmArray.rows = hmArray.cols
        /\ \A i \in 0 .. hmArray.rows - 1, j \in 0 .. hmArray.rows - 1 :
              hmArray.cells[<<i, j>>] = hmArray.cells[<<j, i>>]

\* the last call was locate with known chromosomes and in-range positions
LocateInRange(c) ==
    /\ c.op = "locate"
    /\ c.chr_x \in DOMAIN hm.axis /\ c.chr_y \in DOMAIN hm.axis
    /\ c.x < LenOf(c.chr_x) /\ c.y < LenOf(c.chr_y)

BinX(c) == hm.axis[c.chr_x][1] + (c.x \div hm.bin_size)
BinY(c) == hm.axis[c.chr_y][1] + (c.y \div hm.bin_size)

C5_Witness ==
    /\ pc = "ready" /\ LocateInRange(last) /\ last.raised = "none"
    /\ BinX(last) # BinY(last)
    /\ hmArray.cells[<<BinX(last), BinY(last)>>][1] > 0

\* a step that is a returning locate call with known chromosomes and
\* in-range positions
LocateReturned ==
    /\ pc = "ready" /\ pc' = "ready"
    /\ ncalls' = ncalls + 1
    /\ LocateInRange(last') /\ last'.raised = "none"

hmArrayNext == heap'[hm.matrix.base]

Kinds == {"ndarray", "matrix"}

\* the values every cell of an array handed to HicMatrix(...) is filled with
Fills == {0, 2}

\* numpy's / with a float operand: x/0 is inf, -inf or nan
TrueDiv(x, y) ==
    IF y[1] = 0
    THEN IF x[1] > 0 THEN Inf ELSE IF x[1] < 0 THEN NegInf ELSE NaN
    ELSE IF y[1] > 0 THEN Reduce(x[1] * y[2], x[2] * y[1])
    ELSE Reduce(-(x[1] * y[2]), x[2] * (-y[1]))

\* numpy's / on two integer arrays under Python 2: floor division; x/0 is 0
FloorDiv(x, y) == IF y[1] = 0 THEN Num(0) ELSE Num(x[1] \div y[1])

\* one cell of an element-wise operation
Scalar(op, dtype, x, y) ==
    CASE op = "add" -> NumAdd(x, y)
      [] op = "sub" -> NumSub(x, y)
      [] op = "mul" -> NumMul(x, y)
      [] op = "div" -> IF dtype = "int" THEN FloorDiv(x, y) ELSE TrueDiv(x, y)

ResultDtype(a, b) ==
    IF a.dtype = "int" /\ b.dtype = "int" THEN "int" ELSE "float"

\* a numpy matrix takes precedence over an ndarray
ResultKind(a, b) ==
    IF a.kind = "matrix" \/ b.kind = "matrix" THEN "matrix" ELSE "ndarray"

\* the array an element-wise operator allocates for its result
ElementWise(op, h, ra, rb) ==
    LET a == h[ra.base]
        b == h[rb.base]
    IN  [rows |-> Rows(ra), cols |-> Cols(ra), kind |-> ResultKind(a, b),
         dtype |-> ResultDtype(a, b),
         cells |-> [p \in (0 .. Rows(ra) - 1) \X (0 .. Cols(ra) - 1) |->
                       Scalar(op, ResultDtype(a, b), Cell(h, ra, p[1], p[2]),
                              Cell(h, rb, p[1], p[2]))]]

\* the sum over k < n of a[i, k] * b[k, j]
RECURSIVE RowByColumn(_, _, _, _, _, _)
RowByColumn(h, ra, rb, i, j, n) ==
    IF n = 0 THEN Num(0)
    ELSE NumAdd(RowByColumn(h, ra, rb, i, j, n - 1),
                NumMul(Cell(h, ra, i, n - 1), Cell(h, rb, n - 1, j)))

\* numpy.dot(a, b), what * is for a numpy matrix
MatrixProduct(h, ra, rb) ==
    [rows |-> Rows(ra), cols |-> Cols(rb), kind |-> "matrix",
     dtype |-> ResultDtype(h[ra.base], h[rb.base]),
     cells |-> [p \in (0 .. Rows(ra) - 1) \X (0 .. Cols(rb) - 1) |->
                   RowByColumn(h, ra, rb, p[1], p[2], Cols(ra))]]

\* lines 60-62: a + b
__add__(h, a, b) == [raised |-> "none", array |-> ElementWise("add", h, a, b)]

\* lines 64-66: a - b
__sub__(h, a, b) == [raised |-> "none", array |-> ElementWise("sub", h, a, b)]

\* lines 68-70: a / b
__div__(h, a, b) == [raised |-> "none", array |-> ElementWise("div", h, a, b)]

\* lines 72-74: a * b, the matrix product when an operand is a numpy matrix
__mul__(h, a, b) ==
    IF ResultKind(h[a.base], h[b.base]) = "matrix"
    THEN IF Cols(a) # Rows(b) THEN [raised |-> "ValueError"]
         ELSE [raised |-> "none", array |-> MatrixProduct(h, a, b)]
    ELSE [raised |-> "none", array |-> ElementWise("mul", h, a, b)]

Ops == {"add", "sub", "div", "mul"}

\* line 21: func(self.matrix, other.matrix) for the decorated method func
Func(func, h, a, b) ==
    CASE func = "add" -> __add__(h, a, b)
      [] func = "sub" -> __sub__(h, a, b)
      [] func = "div" -> __div__(h, a, b)
      [] func = "mul" -> __mul__(h, a, b)

\* warp without lines 18-19: operands of differing shape give a copy of self
mat_operation_unchecked(func, self, other, h, id) ==
    LET r == IF Shape(self.matrix) # Shape(other.matrix)
             THEN [raised |-> "none", array |-> h[self.matrix.base]]
             ELSE Func(func, h, self.matrix, other.matrix)
    IN  IF r.raised # "none" THEN [raised |-> r.raised]
        ELSE [raised |-> "none", array |-> r.array,
              res |-> [self EXCEPT
                          !.matrix = [base |-> id, r0 |-> 0,
                                      r1 |-> r.array.rows, c0 |-> 0,
                                      c1 |-> r.array.cols]]]

\* lines 17-22, warp(self, other): res is a shallow copy of self whose matrix
\* is the array func returns (id is the heap slot of that array)
mat_operation(func, self, other, h, id) ==
    IF Shape(self.matrix) # Shape(other.matrix) THEN [raised |-> "ValueError"]
    ELSE LET r == Func(func, h, self.matrix, other.matrix)
         IN  IF r.raised # "none" THEN [raised |-> r.raised]
             ELSE [raised |-> "none", array |-> r.array,
                   res |-> [self EXCEPT
                               !.matrix = [base |-> id, r0 |-> 0,
                                           r1 |-> r.array.rows, c0 |-> 0,
                                           c1 |-> r.array.cols]]]

\* an n x m array of integers, every cell v
np_full(n, m, v, kind) ==
    [rows |-> n, cols |-> m, kind |-> kind, dtype |-> "int",
     cells |-> [p \in (0 .. n - 1) \X (0 .. m - 1) |-> Num(v)]]

\* lines 34-39, HicMatrix.__init__(matrix)
HicMatrixInit(matrix) == [cls |-> "HicMatrix", matrix |-> matrix]

\* hm.locate(chr_x, 0, chr_y, 0, val) on two chromosomes of the axis, once
Contact ==
    /\ pc = "ready" /\ ncalls = 0 /\ "other" \notin DOMAIN objs
    /\ \E chr_x \in DOMAIN objs["hm"].axis, chr_y \in DOMAIN objs["hm"].axis,
          val \in Increments :
          LET r == locate(objs["hm"], heap, chr_x, 0, chr_y, 0, val)
          IN  /\ heap' = r.heap
              /\ last' = [op |-> "locate", raised |-> r.raised,
                          chr_x |-> chr_x, x |-> 0, chr_y |-> chr_y,
                          y |-> 0, val |-> val]
    /\ ncalls' = ncalls + 1
    /\ UNCHANGED <<pc, chr_len, bin_size, objs, evars, pvars, cmd_log>>

\* other = HicMatrix(matrix) on a new array
Wrap ==
    /\ pc = "ready" /\ "other" \notin DOMAIN objs
    /\ \E n \in 1 .. MaxDim, m \in 1 .. MaxDim, v \in Fills, kind \in Kinds :
          /\ heap' = Append(heap, np_full(n, m, v, kind))
          /\ objs' = DictSet(objs, "other",
                             HicMatrixInit(WholeArray(heap', Len(heap) + 1)))
    /\ last' = [op |-> "init", raised |-> "none"]
    /\ UNCHANGED <<pc, chr_len, bin_size, ncalls, evars, pvars, cmd_log>>

\* other = HicMatrix(hm.matrix): the two wrappers share one array
WrapShared ==
    /\ pc = "ready" /\ "other" \notin DOMAIN objs
    /\ objs' = DictSet(objs, "other", HicMatrixInit(objs["hm"].matrix))
    /\ last' = [op |-> "init", raised |-> "none"]
    /\ UNCHANGED <<pc, chr_len, bin_size, heap, ncalls, evars, pvars, cmd_log>>

\* res = left op right, for the wrappers hm and other in either role
Arith ==
    /\ pc = "ready" /\ "other" \in DOMAIN objs
    /\ \E op \in Ops, left \in {"hm", "other"}, right \in {"hm", "other"} :
          LET r == mat_operation(op, objs[left], objs[right], heap, Len(heap) + 1)
          IN  /\ last' = [op |-> op, raised |-> r.raised, left |-> left,
                          right |-> right]
              /\ IF r.raised = "none"
                 THEN /\ heap' = Append(heap, r.array)
                      /\ objs' = DictSet(objs, "res", r.res)
                 ELSE UNCHANGED <<heap, objs>>
    /\ pc' = "done"
    /\ UNCHANGED <<chr_len, bin_size, ncalls, evars, pvars, cmd_log>>

NextArith ==
    \/ Construct
    \/ Contact
    \/ Wrap
    \/ WrapShared
    \/ Arith

SpecArith == InitMatrix /\ [][NextArith]_vars

(***************************************************************************)
(* Claims about the arithmetic operators.                                  *)
(***************************************************************************)
\* a step that is one operator call on two wrappers of identical shape
ArithOnSameShape ==
    /\ pc = "ready" /\ pc' = "done"
    /\ Shape(objs[last'.left].matrix) = Shape(objs[last'.right].matrix)

\* the wrappers and arrays that existed before the call are as they were
OperandsUnchanged ==
    /\ \A slot \in DOMAIN objs : objs'[slot] = objs[slot]
    /\ \A id \in DOMAIN heap : heap'[id] = heap[id]

\* res is a new wrapper on a new array, with the left operand's class and
\* metadata
NewWrapperLikeLeft ==
    LET self == objs[last'.left]
        res == objs'["res"]
    IN  /\ "res" \notin DOMAIN objs
        /\ res.matrix.base \notin DOMAIN heap
        /\ DOMAIN res = DOMAIN self
        /\ \A f \in (DOMAIN self) \ {"matrix"} : res[f] = self[f]

\* the matrix of res holds, cell by cell, op of the operands' cells
ResultElementWise ==
    LET self == objs[last'.left]
        other == objs[last'.right]
        res == objs'["res"]
        dtype == ResultDtype(heap[self.matrix.base], heap[other.matrix.base])
    IN  /\ Shape(res.matrix) = Shape(self.matrix)
        /\ \A i \in 0 .. Rows(self.matrix) - 1, j \in 0 .. Cols(self.matrix) - 1 :
              Cell(heap', res.matrix, i, j) =
                 Scalar(last'.op, dtype, Cell(heap, self.matrix, i, j),
                        Cell(heap, other.matrix, i, j))

\* C10: for any two wrappers of identical shape and each of add, sub, mul,
\* div, the result is a new wrapper whose matrix is the element-wise result
\* and whose metadata is the left operand's, and both operands' matrices and
\* metadata are unchanged.
C10_ElementWiseResult ==
    [][ArithOnSameShape =>
          /\ last'.raised = "none"
          /\ NewWrapperLikeLeft
          /\ ResultElementWise
          /\ OperandsUnchanged]_vars

\* the same for operands that are both ndarrays
C10_OnNdarrays ==
    [][(/\ ArithOnSameShape
        /\ heap[objs[last'.left].matrix.base].kind = "ndarray"
        /\ heap[objs[last'.right].matrix.base].kind = "ndarray") =>
          /\ last'.raised = "none"
          /\ NewWrapperLikeLeft
          /\ ResultElementWise
          /\ OperandsUnchanged]_vars

\* a step that is one operator call on two wrappers of differing shape
ArithOnDifferentShapes ==
    /\ pc = "ready" /\ pc' = "done"
    /\ Shape(objs[last'.left].matrix) # Shape(objs[last'.right].matrix)

\* C11: each of the four operators, applied to two wrappers whose matrices
\* differ in shape, fails with the shape-mismatch error (ValueError), makes
\* no result wrapper and leaves both operands unchanged.
C11_ShapeMismatchRaises ==
    [][ArithOnDifferentShapes =>
          /\ last'.raised = "ValueError"
          /\ "res" \notin DOMAIN objs'
          /\ objs' = objs
          /\ heap' = heap]_vars

C11_Witness ==
    /\ pc = "done" /\ last.op = "div" /\ last.raised = "ValueError"
    /\ last.left = "hm" /\ last.right = "other"
    /\ Shape(objs["hm"].matrix) # Shape(objs["other"].matrix)
    /\ "res" \notin DOMAIN objs

(***************************************************************************)
(* utils/wrap/tabix.py: the external commands and subprocess.check_call.   *)
(***************************************************************************)
\* the exit status of an external command; 1 stands for every non-zero status
ExitStatuses == {0, 1}

\* subprocess.call: the status is returned and nothing is raised
call_ignoring_status(status) == "none"

\* subprocess.check_call (lines 9, 14, 20, 22, 35, 40, 42): a non-zero status
\* raises CalledProcessError
check_call(status) == IF status = 0 THEN "none" ELSE "CalledProcessError"

Logged(cmd, status) == Append(cmd_log, [cmd |-> cmd, status |-> status])

StrandRank(strand) == IF strand = "+" THEN 0 ELSE 1

\* line 8: sort -k1,1V -k2,2n -k3,3n on BED6 lines <<chr_, k, strand>>; equal
\* keys fall back to the whole line
Bed6LessEq(a, b) ==
    \/ a[1] < b[1]
    \/ a[1] = b[1] /\ a[2] < b[2]
    \/ a[1] = b[1] /\ a[2] = b[2] /\ StrandRank(a[3]) <= StrandRank(b[3])

\* line 34: sort -k2,2 -k4,4 -k3,3n -k5,5n on pairs lines; equal keys fall
\* back to the whole line
PairsLessEq(a, b) ==
    \/ a[2] < b[2]
    \/ a[2] = b[2] /\ a[4] < b[4]
    \/ a[2] = b[2] /\ a[4] = b[4] /\ a[3] < b[3]
    \/ a[2] = b[2] /\ a[4] = b[4] /\ a[3] = b[3] /\ a[5] < b[5]
    \/ a[2] = b[2] /\ a[4] = b[4] /\ a[3] = b[3] /\ a[5] = b[5] /\ a[1] <= b[1]

\* line 13: sort -k1,1V -k2,2n -k3,3n on BEDPE records, the first read's
\* interval
BedpeLessEq(a, b) ==
    \/ a.chr1 < b.chr1
    \/ a.chr1 = b.chr1 /\ a.pos1 < b.pos1
    \/ a.chr1 = b.chr1 /\ a.pos1 = b.pos1 /\ a.name <= b.name

\* the order of the lines under the keys of one of the sort commands
LessEq(keys, a, b) ==
    CASE keys = "bed6" -> Bed6LessEq(a, b)
      [] keys = "pairs" -> PairsLessEq(a, b)
      [] keys = "bedpe" -> BedpeLessEq(a, b)

\* insertion of a line into a sorted file
RECURSIVE InsertSorted(_, _, _)
InsertSorted(keys, x, s) ==
    IF s = <<>> THEN <<x>>
    ELSE IF LessEq(keys, x, Head(s)) THEN <<x>> \o s
    ELSE <<Head(s)>> \o InsertSorted(keys, x, Tail(s))

\* the output of sort
RECURSIVE SortedBy(_, _)
SortedBy(keys, s) ==
    IF s = <<>> THEN <<>>
    ELSE InsertSorted(keys, Head(s), SortedBy(keys, Tail(s)))

(***************************************************************************)
(* tools/helper/extract_rest_sites.py: workers, outputer and _main.        *)
(* A chromosome is named by its index in the reference; a record           *)
(* <<chr_, k, strand>> is the k-th match of that strand on the chromosome. *)
(***************************************************************************)
\* the motifs tried: a palindrome in upper case, in lower case and in mixed
\* case, and a motif that is not a palindrome
Motifs == {<<"A", "T">>, <<"a", "t">>, <<"A", "t">>, <<"A", "A">>}

Complement(base) ==
    CASE base = "A" -> "T" [] base = "T" -> "A"
      [] base = "C" -> "G" [] base = "G" -> "C"
      [] base = "a" -> "t" [] base = "t" -> "a"
      [] base = "c" -> "g" [] base = "g" -> "c"

\* dlo_hic.utils.reverse_complement: the complement of every base, in
\* reverse order, each base keeping the letter case it was given in
rc(seq) == [i \in 1 .. Len(seq) |-> Complement(seq[Len(seq) + 1 - i])]

Upper(base) ==
    CASE base = "a" -> "A" [] base = "c" -> "C"
      [] base = "g" -> "G" [] base = "t" -> "T"
      [] OTHER -> base

\* re.IGNORECASE: two patterns of letters match the same places exactly when
\* they are equal up to letter case
SamePattern(a, b) ==
    Len(a) = Len(b) /\ \A i \in 1 .. Len(a) : Upper(a[i]) = Upper(b[i])

\* line 37, rest_rc != rest: a comparison of the two strings
rc_differs == rc(rest) # rest

\* the matches on one chromosome: of rest (fwd) and of rest_rc (rev); the
\* two searches ignore case, so a motif that is its own reverse complement up
\* to case has the same matches in both
ChrMatches(motif) ==
    IF SamePattern(rc(motif), motif)
    THEN {[fwd |-> n, rev |-> n] : n \in 0 .. MaxMatches}
    ELSE {m \in [fwd : 0 .. MaxMatches, rev : 0 .. MaxMatches] :
             m.fwd + m.rev <= MaxMatches}

RECURSIVE RecordsOf(_, _)
RecordsOf(chrs, differs) ==
    IF chrs = <<>> THEN 0
    ELSE Head(chrs).fwd + (IF differs THEN Head(chrs).rev ELSE 0)
         + RecordsOf(Tail(chrs), differs)

References(motif) ==
    {chrs \in UNION {[1 .. n -> ChrMatches(motif)] : n \in 0 .. MaxRefChrs} :
        RecordsOf(chrs, rc(motif) # motif) <= MaxMatches}

Min(a, b) == IF a < b THEN a ELSE b

\* line 72 without the min: one worker per requested process
NumWorkersRequested(requested, chrs) == requested

\* line 72: processes = min(processes, len(chrs))
NumWorkers(requested, chrs) == Min(requested, Len(chrs))

\* lines 77-78 with the loop run once per worker: every name is queued
\* NumWorkers times
TaskNamesPerWorker(chrs, requested) ==
    [i \in 1 .. Len(chrs) * NumWorkers(requested, chrs) |->
        ((i - 1) % Len(chrs)) + 1]

\* lines 77-78: every chromosome name is put on task_queue, once
TaskNames(chrs, requested) == [i \in 1 .. Len(chrs) |-> i]

BagAdd(b, r) == DictSet(b, r, IF r \in DOMAIN b THEN b[r] + 1 ELSE 1)

BagRemove(b, r) ==
    IF b[r] = 1 THEN [x \in (DOMAIN b) \ {r} |-> b[x]]
    ELSE [b EXCEPT ![r] = @ - 1]

BagUnion(a, b) ==
    [x \in (DOMAIN a) \cup (DOMAIN b) |->
        (IF x \in DOMAIN a THEN a[x] ELSE 0)
        + (IF x \in DOMAIN b THEN b[x] ELSE 0)]

\* the sum of a bag of numbers
RECURSIVE BagSum(_)
BagSum(b) ==
    IF DOMAIN b = {} THEN 0
    ELSE LET r == CHOOSE x \in DOMAIN b : TRUE
         IN  r * b[r] + BagSum([x \in (DOMAIN b) \ {r} |-> b[x]])

\* the lines of a bag, in some order
RECURSIVE BagToSeq(_)
BagToSeq(b) ==
    IF DOMAIN b = {} THEN <<>>
    ELSE LET r == CHOOSE x \in DOMAIN b : TRUE
         IN  <<r>> \o BagToSeq(BagRemove(b, r))

RECURSIVE BagSize(_)
BagSize(b) ==
    IF DOMAIN b = {} THEN 0
    ELSE LET r == CHOOSE x \in DOMAIN b : TRUE
         IN  b[r] + BagSize([x \in (DOMAIN b) \ {r} |-> b[x]])

\* the loops of lines 32-42: where a worker stands once its current loop has
\* no match left (the reverse-complement loop runs only if rest_rc != rest)
Advance(w) ==
    IF w.pc = "fwd" /\ w.k = fasta[w.chr_].fwd
    THEN IF rc_differs /\ fasta[w.chr_].rev > 0
         THEN [w EXCEPT !.pc = "rev", !.k = 0]
         ELSE [w EXCEPT !.pc = "count", !.k = 0]
    ELSE IF w.pc = "rev" /\ w.k = fasta[w.chr_].rev
    THEN [w EXCEPT !.pc = "count", !.k = 0]
    ELSE w

\* line 25 moved before the loop: c is not reset for the next chromosome
worker_get_keep_count(w, chr_) ==
    Advance([pc |-> "fwd", chr_ |-> chr_, c |-> w.c, k |-> 0])

\* lines 25-31: c = 0 and the chromosome pulled from task_queue
worker_get(w, chr_) ==
    Advance([pc |-> "fwd", chr_ |-> chr_, c |-> 0, k |-> 0])

InitExtract ==
    /\ MatrixIdle
    /\ PairsIdle
    /\ cmd_log = <<>>
    /\ rest \in Motifs
    /\ fasta \in References(rest)
    /\ processes \in 1 .. MaxProcesses
    /\ task_queue = <<>> /\ output_queue = EmptyDict /\ count_queue = EmptyDict
    /\ workers = EmptyDict
    /\ writer = [pc |-> "idle", record |-> <<>>, buf |-> EmptyDict,
                 sigterm |-> FALSE]
    /\ tmp = EmptyDict
    /\ main = [pc |-> "start", c |-> 0, raised |-> "none"]
    /\ files = [out |-> FALSE, out_lines |-> <<>>, gz |-> FALSE, idx |-> FALSE]
    /\ scanned = <<>> /\ put_log = EmptyDict

\* lines 80-85: n worker processes at the head of their loop
StartWorkers(n) ==
    IF n = 0 THEN EmptyDict
    ELSE DictSet(EmptyDict, [pc |-> "get", chr_ |-> 0, c |-> 0, k |-> 0], n)

\* the worker w has taken a step and stands at to
WorkerStep(w, to) == BagAdd(BagRemove(workers, w), to)

\* lines 67-85: the queues, the workers and the writer are created and started
MainStart ==
    /\ main.pc = "start"
    /\ task_queue' = TaskNames(fasta, processes)
    /\ workers' = StartWorkers(NumWorkers(processes, fasta))
    /\ writer' = [writer EXCEPT !.pc = "get"]
    /\ scanned' = [i \in 1 .. Len(fasta) |-> 0]
    /\ main' = [main EXCEPT !.pc = "join"]
    /\ UNCHANGED <<mvars, pvars, cmd_log, fasta, rest, processes, output_queue,
                   count_queue, tmp, files, put_log>>

\* lines 24-31: task_queue.get(timeout=TIME_OUT); Empty ends the worker
WorkerGet(w) ==
    /\ w.pc = "get"
    /\ IF task_queue = <<>>
       THEN /\ workers' = WorkerStep(w, [w EXCEPT !.pc = "exited"])
            /\ UNCHANGED <<task_queue, scanned>>
       ELSE /\ workers' = WorkerStep(w, worker_get(w, Head(task_queue)))
            /\ task_queue' = Tail(task_queue)
            /\ scanned' = [scanned EXCEPT ![Head(task_queue)] = @ + 1]
    /\ UNCHANGED <<mvars, pvars, cmd_log, fasta, rest, processes, output_queue,
                   count_queue, writer, tmp, main, files, put_log>>

\* lines 32-42: one output_queue.put and c += 1
WorkerPut(w) ==
    /\ w.pc \in {"fwd", "rev"}
    /\ LET me == w
           record == <<me.chr_, me.k, IF me.pc = "fwd" THEN "+" ELSE "-">>
       IN  /\ output_queue' = BagAdd(output_queue, record)
           /\ put_log' = BagAdd(put_log, record)
           /\ workers' = WorkerStep(w, Advance([me EXCEPT !.c = @ + 1,
                                                           !.k = @ + 1]))
    /\ UNCHANGED <<mvars, pvars, cmd_log, fasta, rest, processes, task_queue,
                   count_queue, writer, tmp, main, files, scanned>>

\* line 43: count_queue.put(c), then back to the head of the loop
WorkerCount(w) ==
    /\ w.pc = "count"
    /\ count_queue' = BagAdd(count_queue, w.c)
    /\ workers' = WorkerStep(w, [w EXCEPT !.pc = "get"])
    /\ UNCHANGED <<mvars, pvars, cmd_log, fasta, rest, processes, task_queue,
                   output_queue, writer, tmp, main, files, scanned, put_log>>

\* line 53: record = output_queue.get()
WriterGet ==
    /\ writer.pc = "get" /\ ~writer.sigterm
    /\ \E record \in DOMAIN output_queue :
          /\ writer' = [writer EXCEPT !.pc = "write", !.record = record]
          /\ output_queue' = BagRemove(output_queue, record)
    /\ UNCHANGED <<mvars, pvars, cmd_log, fasta, rest, processes, task_queue,
                   count_queue, workers, tmp, main, files, scanned, put_log>>

\* lines 54-55: output_file.write(line) appends to the buffer of the file object
WriterWrite ==
    /\ writer.pc = "write" /\ ~writer.sigterm
    /\ writer' = [writer EXCEPT !.pc = "get", !.record = <<>>,
                                !.buf = BagAdd(@, writer.record)]
    /\ UNCHANGED <<mvars, pvars, cmd_log, fasta, rest, processes, task_queue,
                   output_queue, count_queue, workers, tmp, main, files,
                   scanned, put_log>>

\* the file object writes its buffer out when the buffer is full
WriterBufferFull ==
    /\ writer.pc \in {"get", "write"} /\ ~writer.sigterm
    /\ writer.buf # EmptyDict
    /\ tmp' = BagUnion(tmp, writer.buf)
    /\ writer' = [writer EXCEPT !.buf = EmptyDict]
    /\ UNCHANGED <<mvars, pvars, cmd_log, fasta, rest, processes, task_queue,
                   output_queue, count_queue, workers, main, files,
                   scanned, put_log>>

\* lines 48-51: the SIGTERM handler flushes the file and exits
WriterSigterm ==
    /\ writer.pc \in {"get", "write"} /\ writer.sigterm
    /\ tmp' = BagUnion(tmp, writer.buf)
    /\ writer' = [writer EXCEPT !.pc = "exited", !.buf = EmptyDict]
    /\ UNCHANGED <<mvars, pvars, cmd_log, fasta, rest, processes, task_queue,
                   output_queue, count_queue, workers, main, files,
                   scanned, put_log>>

\* lines 87-88 left out: main goes on without waiting for the workers
not_joined(ws) == TRUE

\* lines 87-88, w.join() for every worker: returns once all have exited
joined(ws) == \A w \in DOMAIN ws : w.pc = "exited"

\* lines 87-88: every worker is joined
MainJoin ==
    /\ main.pc = "join"
    /\ joined(workers)
    /\ main' = [main EXCEPT !.pc = "count"]
    /\ UNCHANGED <<mvars, pvars, cmd_log, fasta, rest, processes, task_queue,
                   output_queue, count_queue, workers, writer, tmp, files,
                   scanned, put_log>>

\* lines 90-93: the counts on count_queue are summed
MainCount ==
    /\ main.pc = "count"
    /\ main' = [main EXCEPT !.pc = "drain", !.c = BagSum(count_queue)]
    /\ count_queue' = EmptyDict
    /\ UNCHANGED <<mvars, pvars, cmd_log, fasta, rest, processes, task_queue,
                   output_queue, workers, writer, tmp, files, scanned,
                   put_log>>

\* lines 95-96: the loop ends when output_queue.empty()
MainDrain ==
    /\ main.pc = "drain"
    /\ output_queue = EmptyDict
    /\ main' = [main EXCEPT !.pc = "terminate"]
    /\ UNCHANGED <<mvars, pvars, cmd_log, fasta, rest, processes, task_queue,
                   output_queue, count_queue, workers, writer, tmp, files,
                   scanned, put_log>>

\* line 97: output_p.terminate() sends SIGTERM and returns
MainTerminate ==
    /\ main.pc = "terminate"
    /\ writer' = [writer EXCEPT !.sigterm = TRUE]
    /\ main' = [main EXCEPT !.pc = "sort"]
    /\ UNCHANGED <<mvars, pvars, cmd_log, fasta, rest, processes, task_queue,
                   output_queue, count_queue, workers, tmp, files, scanned,
                   put_log>>

\* a failing step of the CLI: the exception leaves _main
MainRaise(raised) == [main EXCEPT !.pc = "failed", !.raised = raised]

\* line 101, sort_bed6(tmp.name, output): sort ... tmp > output.  The shell
\* creates output before sort runs; a failing command may leave it behind.
MainSortBed6 ==
    /\ main.pc = "sort"
    /\ \E status \in ExitStatuses :
          /\ cmd_log' = Logged("sort", status)
          /\ IF check_call(status) = "none"
             THEN /\ files' = [files EXCEPT !.out = TRUE,
                                  !.out_lines = SortedBy("bed6", BagToSeq(tmp))]
                  /\ main' = [main EXCEPT !.pc = "bgzip"]
             ELSE /\ \E left \in BOOLEAN : files' = [files EXCEPT !.out = left]
                  /\ main' = MainRaise(check_call(status))
    /\ UNCHANGED <<mvars, pvars, fasta, rest, processes, task_queue,
                   output_queue, count_queue, workers, writer, tmp, scanned,
                   put_log>>

\* lines 103, 19-20, index_bed6(output): cat output | bgzip > output.gz
MainBgzip ==
    /\ main.pc = "bgzip"
    /\ \E status \in ExitStatuses :
          /\ cmd_log' = Logged("bgzip", status)
          /\ IF check_call(status) = "none"
             THEN /\ files' = [files EXCEPT !.gz = TRUE]
                  /\ main' = [main EXCEPT !.pc = "tabix"]
             ELSE /\ \E left \in BOOLEAN : files' = [files EXCEPT !.gz = left]
                  /\ main' = MainRaise(check_call(status))
    /\ UNCHANGED <<mvars, pvars, fasta, rest, processes, task_queue,
                   output_queue, count_queue, workers, writer, tmp, scanned,
                   put_log>>

\* lines 21-22, index_bed6(output): tabix -s 1 -b 2 -e 3 output.gz
MainTabix ==
    /\ main.pc = "tabix"
    /\ \E status \in ExitStatuses :
          /\ cmd_log' = Logged("tabix", status)
          /\ IF check_call(status) = "none"
             THEN /\ files' = [files EXCEPT !.idx = TRUE]
                  /\ main' = [main EXCEPT !.pc = "done"]
             ELSE /\ \E left \in BOOLEAN : files' = [files EXCEPT !.idx = left]
                  /\ main' = MainRaise(check_call(status))
    /\ UNCHANGED <<mvars, pvars, fasta, rest, processes, task_queue,
                   output_queue, count_queue, workers, writer, tmp, scanned,
                   put_log>>

NextExtract ==
    \/ MainStart
    \/ \E w \in DOMAIN workers : WorkerGet(w)
    \/ \E w \in DOMAIN workers : WorkerPut(w)
    \/ \E w \in DOMAIN workers : WorkerCount(w)
    \/ WriterGet
    \/ WriterWrite
    \/ WriterBufferFull
    \/ WriterSigterm
    \/ MainJoin
    \/ MainCount
    \/ MainDrain
    \/ MainTerminate
    \/ MainSortBed6
    \/ MainBgzip
    \/ MainTabix

SpecExtract == InitExtract /\ [][NextExtract]_vars

\* the steps of each process
WorkerSteps ==
    \E w \in DOMAIN workers : WorkerGet(w) \/ WorkerPut(w) \/ WorkerCount(w)

WriterSteps == WriterGet \/ WriterWrite \/ WriterSigterm

MainSteps ==
    \/ MainStart
    \/ MainJoin
    \/ MainCount
    \/ MainDrain
    \/ MainTerminate
    \/ MainSortBed6
    \/ MainBgzip
    \/ MainTabix

\* the runs under a fair scheduler: references of up to MaxFairMatches records
InitExtractFair ==
    /\ InitExtract
    /\ RecordsOf(fasta, rc_differs) <= MaxFairMatches

\* The extractor under a fair scheduler: a process that can take a step is
\* not left waiting forever.  Fairness holds for the worker pool (a finite
\* amount of work is shared), for the writer and for the main process.
SpecExtractFair ==
    /\ InitExtractFair
    /\ [][NextExtract]_vars
    /\ WF_vars(WorkerSteps)
    /\ WF_vars(WriterSteps)
    /\ WF_vars(MainSteps)

(***************************************************************************)
(* Claims about extract_rest_sites.                                        *)
(***************************************************************************)
AllWorkersExited ==
    /\ main.pc \notin {"idle", "start"}
    /\ \A w \in DOMAIN workers : w.pc = "exited"

\* C2: when the main process has terminated the writer and invokes
\* sort_bed6, the temporary file holds exactly one line for every record a
\* worker put on the output queue.  Stated for the file as the writer leaves
\* it, its SIGTERM handler having flushed and exited.
C2_NoRecordLost ==
    (main.pc = "sort" /\ writer.pc = "exited") => tmp = put_log

\* C3: every chromosome put on the work queue is pulled by exactly one
\* worker exactly once: never twice, and none is left when all workers have
\* exited.
C3_ScannedOnce ==
    main.pc \notin {"idle", "start"} =>
        /\ \A i \in DOMAIN scanned : scanned[i] <= 1
        /\ AllWorkersExited => \A i \in DOMAIN scanned : scanned[i] = 1

C3_Witness ==
    /\ AllWorkersExited
    /\ BagSize(workers) > 1 /\ Len(fasta) > 1
    /\ \A i \in DOMAIN scanned : scanned[i] = 1

RECURSIVE TotalMatches(_)
TotalMatches(chrs) ==
    IF chrs = <<>> THEN 0
    ELSE Head(chrs).fwd + (IF rc_differs THEN Head(chrs).rev ELSE 0)
         + TotalMatches(Tail(chrs))

\* C4: the total the main process reports after joining the workers equals
\* the number of records the workers put on the output queue, the sum over
\* the chromosomes of the forward and reverse-complement matches.
C4_ReportedTotal ==
    main.pc \in {"drain", "terminate", "sort", "bgzip", "tabix", "done",
                 "failed"} =>
        /\ main.c = BagSize(put_log)
        /\ main.c = TotalMatches(fasta)

C4_Witness ==
    /\ main.pc = "drain"
    /\ BagSize(workers) = 1 /\ Len(fasta) > 1
    /\ fasta[1].fwd > 0 /\ fasta[2].fwd > 0
    /\ main.c = BagSize(put_log) /\ main.c > 1

\* a step in which a worker leaves its loop
WorkerExits ==
    \E w \in DOMAIN workers :
        /\ w.pc = "get"
        /\ workers' = WorkerStep(w, [w EXCEPT !.pc = "exited"])

\* the main process is past the drain loop, has terminated the writer and
\* has reached the sort step
PastTerminate ==
    /\ main.pc \in {"sort", "bgzip", "tabix", "done", "failed"}
    /\ writer.sigterm
    /\ cmd_log # <<>> /\ cmd_log[1].cmd = "sort"

Starts(cmd) ==
    /\ Len(cmd_log') = Len(cmd_log) + 1
    /\ cmd_log'[Len(cmd_log')].cmd = cmd

\* the command run last was cmd and it returned 0
Returned(cmd) ==
    /\ cmd_log # <<>>
    /\ cmd_log[Len(cmd_log)] = [cmd |-> cmd, status |-> 0]

C17_PalindromeOneStrand ==
    SamePattern(rc(rest), rest) =>
        /\ \A r \in DOMAIN put_log : r[3] = "+"
        /\ ~\E r \in DOMAIN put_log, q \in DOMAIN put_log :
               r[1] = q[1] /\ r[2] = q[2] /\ r[3] # q[3]

(***************************************************************************)
(* tools/main_process/bedpe2pairs.py.  A BEDPE record is [name, chr1,      *)
(* pos1, chr2, pos2] and a pairs line <<readID, chr1, position1, chr2,     *)
(* position2>>; chromosomes are named by their rank in the sort's order.   *)
(***************************************************************************)
\* the loci <<chr1, pos1, chr2, pos2>> of the input records
PairLoci ==
    {<<1, 1, 1, 1>>, <<1, 1, 1, 2>>, <<1, 2, 1, 1>>, <<1, 1, 2, 1>>,
     <<2, 1, 1, 1>>}

BedpeFiles ==
    UNION {{[i \in 1 .. n |-> [name |-> i, chr1 |-> f[i][1], pos1 |-> f[i][2],
                               chr2 |-> f[i][3], pos2 |-> f[i][4]]] :
                f \in [1 .. n -> PairLoci]} : n \in 0 .. MaxBedpe}

\* lines 56-57: the header
Header ==
    << <<"## pairs format v1.0">>,
       <<"#columns: readID chr1 position1 chr2 position2 strand1 strand2">> >>

\* utils/stream.py, read_file: the records of the file, in file order
read_file(f) == f

\* utils/stream.py, sort_bedpe: by the first read's interval
sort_bedpe(f) == SortedBy("bedpe", f)

\* utils/stream.py, upper_triangle: the two ends in a fixed order
upper_triangle(r) ==
    IF r.chr1 < r.chr2 \/ (r.chr1 = r.chr2 /\ r.pos1 <= r.pos2) THEN r
    ELSE [name |-> r.name, chr1 |-> r.chr2, pos1 |-> r.pos2,
          chr2 |-> r.chr1, pos2 |-> r.pos1]

SameLoci(a, b) ==
    a.chr1 = b.chr1 /\ a.pos1 = b.pos1 /\ a.chr2 = b.chr2 /\ a.pos2 = b.pos2

\* utils/stream.py, remove_redundancy: a record equal to the one kept before
\* it is dropped
RECURSIVE rr(_, _)
rr(recs, kept) ==
    IF recs = <<>> THEN kept
    ELSE IF kept # <<>> /\ SameLoci(kept[Len(kept)], Head(recs))
    THEN rr(Tail(recs), kept)
    ELSE rr(Tail(recs), Append(kept, Head(recs)))

\* utils/stream.py, bedpe2pairs: one pairs record per BEDPE record
bedpe2pairs(recs) ==
    [i \in 1 .. Len(recs) |->
        <<recs[i].name, recs[i].chr1, recs[i].pos1, recs[i].chr2,
          recs[i].pos2>>]

\* utils/stream.py, write_to_file: the lines of the file after the call
write_to_file(old, lines, mode) == IF mode = "a" THEN old \o lines ELSE lines

\* line 61 with the mode of line 50: the file is truncated
TruncateMode == "w"

\* line 61: mode='a'
AppendMode == "a"

\* lines 67-72 with the branches exchanged
RemovePairsIfKept(k) == k

\* lines 67-72: the uncompressed file is removed unless --keep
RemovePairsWanted(k) == ~k

\* lines 37-47: the records line_iter yields, once iterated
ConvertedLines(f, dedup) ==
    IF dedup
    THEN bedpe2pairs(rr([i \in 1 .. Len(f) |-> upper_triangle(sort_bedpe(f)[i])],
                        <<>>))
    ELSE bedpe2pairs(read_file(f))

ConvRaise(raised) == [conv EXCEPT !.pc = "failed", !.raised = raised]

InitPairs ==
    /\ MatrixIdle
    /\ ExtractIdle
    /\ cmd_log = <<>>
    /\ bedpe \in BedpeFiles
    /\ keep \in BOOLEAN
    /\ remove_redundancy \in BOOLEAN
    /\ conv = [pc |-> "start", raised |-> "none"]
    /\ line_iter = <<>>
    /\ pfiles = NoPairsFiles

\* lines 37-50: line_iter is built and written to bedpe + ".tmp"; with
\* --remove-redundancy the BEDPE file goes through the external sort first
ConvWriteTmp ==
    /\ conv.pc = "start"
    /\ \E status \in (IF remove_redundancy THEN ExitStatuses ELSE {0}) :
          /\ cmd_log' = IF remove_redundancy THEN Logged("sort_bedpe", status)
                        ELSE cmd_log
          /\ IF check_call(status) = "none"
             THEN /\ pfiles' = [pfiles EXCEPT !.tmp = TRUE,
                       !.tmp_lines = write_to_file(<<>>,
                           ConvertedLines(bedpe, remove_redundancy), "w")]
                  /\ conv' = [conv EXCEPT !.pc = "sort_pairs"]
             ELSE /\ conv' = ConvRaise(check_call(status))
                  /\ UNCHANGED pfiles
    /\ UNCHANGED <<mvars, evars, bedpe, keep, remove_redundancy, line_iter>>

\* lines 52-53: line_iter = sort_pairs(tmp, ncpu=ncpu)
ConvSortPairs ==
    /\ conv.pc = "sort_pairs"
    /\ \E status \in ExitStatuses :
          /\ cmd_log' = Logged("sort_pairs", status)
          /\ IF check_call(status) = "none"
             THEN /\ line_iter' = SortedBy("pairs", pfiles.tmp_lines)
                  /\ conv' = [conv EXCEPT !.pc = "header"]
             ELSE /\ conv' = ConvRaise(check_call(status))
                  /\ UNCHANGED line_iter
    /\ UNCHANGED <<mvars, evars, bedpe, keep, remove_redundancy, pfiles>>

\* lines 55-59: open(pairs, 'w') and the header
ConvWriteHeader ==
    /\ conv.pc = "header"
    /\ pfiles' = [pfiles EXCEPT !.pairs = TRUE, !.pairs_lines = Header]
    /\ conv' = [conv EXCEPT !.pc = "append"]
    /\ UNCHANGED <<mvars, evars, cmd_log, bedpe, keep, remove_redundancy,
                   line_iter>>

\* line 61: write_to_file(line_iter, pairs, mode='a')
ConvAppend ==
    /\ conv.pc = "append"
    /\ pfiles' = [pfiles EXCEPT
                     !.pairs_lines = write_to_file(@, line_iter, AppendMode)]
    /\ line_iter' = <<>>
    /\ conv' = [conv EXCEPT !.pc = "rm_tmp"]
    /\ UNCHANGED <<mvars, evars, cmd_log, bedpe, keep, remove_redundancy>>

\* line 63: subprocess.check_call(['rm', tmp])
ConvRmTmp ==
    /\ conv.pc = "rm_tmp"
    /\ \E status \in ExitStatuses :
          /\ cmd_log' = Logged("rm_tmp", status)
          /\ IF check_call(status) = "none"
             THEN /\ pfiles' = [pfiles EXCEPT !.tmp = FALSE, !.tmp_lines = <<>>]
                  /\ conv' = [conv EXCEPT !.pc = "bgzip"]
             ELSE /\ conv' = ConvRaise(check_call(status))
                  /\ UNCHANGED pfiles
    /\ UNCHANGED <<mvars, evars, bedpe, keep, remove_redundancy, line_iter>>

\* line 66 and tabix.py lines 39-40: cat pairs | bgzip > pairs.gz
ConvBgzip ==
    /\ conv.pc = "bgzip"
    /\ \E status \in ExitStatuses :
          /\ cmd_log' = Logged("bgzip", status)
          /\ IF check_call(status) = "none"
             THEN /\ pfiles' = [pfiles EXCEPT !.gz = TRUE]
                  /\ conv' = [conv EXCEPT !.pc = "pairix"]
             ELSE /\ \E left \in BOOLEAN : pfiles' = [pfiles EXCEPT !.gz = left]
                  /\ conv' = ConvRaise(check_call(status))
    /\ UNCHANGED <<mvars, evars, bedpe, keep, remove_redundancy, line_iter>>

\* tabix.py lines 41-42: pairix -f pairs.gz; then lines 67-71
ConvPairix ==
    /\ conv.pc = "pairix"
    /\ \E status \in ExitStatuses :
          /\ cmd_log' = Logged("pairix", status)
          /\ IF check_call(status) = "none"
             THEN /\ pfiles' = [pfiles EXCEPT !.idx = TRUE]
                  /\ conv' = [conv EXCEPT !.pc = IF RemovePairsWanted(keep)
                                                 THEN "rm_pairs" ELSE "done"]
             ELSE /\ \E left \in BOOLEAN : pfiles' = [pfiles EXCEPT !.idx = left]
                  /\ conv' = ConvRaise(check_call(status))
    /\ UNCHANGED <<mvars, evars, bedpe, keep, remove_redundancy, line_iter>>

\* line 72: subprocess.check_call(['rm', pairs])
ConvRmPairs ==
    /\ conv.pc = "rm_pairs"
    /\ \E status \in ExitStatuses :
          /\ cmd_log' = Logged("rm_pairs", status)
          /\ IF check_call(status) = "none"
             THEN /\ pfiles' = [pfiles EXCEPT !.pairs = FALSE,
                                              !.pairs_lines = <<>>]
                  /\ conv' = [conv EXCEPT !.pc = "done"]
             ELSE /\ conv' = ConvRaise(check_call(status))
                  /\ UNCHANGED pfiles
    /\ UNCHANGED <<mvars, evars, bedpe, keep, remove_redundancy, line_iter>>

NextPairs ==
    \/ ConvWriteTmp
    \/ ConvSortPairs
    \/ ConvWriteHeader
    \/ ConvAppend
    \/ ConvRmTmp
    \/ ConvBgzip
    \/ ConvPairix
    \/ ConvRmPairs

SpecPairs == InitPairs /\ [][NextPairs]_vars

\* either command-line tool, run once
InitTools == InitExtract \/ InitPairs

NextTools ==
    \/ NextExtract
    \/ NextPairs

SpecTools == InitTools /\ [][NextTools]_vars

(***************************************************************************)
(* Claims about the external commands and bedpe2pairs.                     *)
(***************************************************************************)
Failed(i) == cmd_log[i].status # 0
ToolAborted == main.pc = "failed" \/ conv.pc = "failed"
GzProduced == files.gz \/ pfiles.gz
IndexProduced == files.idx \/ pfiles.idx

\* C7 as stated: when an external command returns a non-zero status the tool
\* aborts at that step, no later step runs, and no .gz or index file for the
\* output path has been produced.
C7_AbortLeavesNoOutput ==
    \A i \in DOMAIN cmd_log :
        Failed(i) =>
            /\ ToolAborted
            /\ i = Len(cmd_log)
            /\ ~GzProduced /\ ~IndexProduced

\* C7 amended: the tool aborts at the failing step and no later step runs,
\* so nothing a later step writes exists (no .gz and no index when a command
\* before bgzip fails, no index when bgzip fails); but the .gz file exists
\* when tabix, pairix or the converter's last rm fails, and the index too
\* when that rm fails.
C7_AbortAtFailingStep ==
    \A i \in DOMAIN cmd_log :
        Failed(i) =>
            /\ ToolAborted
            /\ i = Len(cmd_log)
            /\ cmd_log[i].cmd \in {"sort", "sort_bedpe", "sort_pairs", "rm_tmp"}
                  => ~GzProduced /\ ~IndexProduced
            /\ cmd_log[i].cmd = "bgzip" => ~IndexProduced
            /\ cmd_log[i].cmd \in {"tabix", "pairix", "rm_pairs"} => GzProduced
            /\ cmd_log[i].cmd = "rm_pairs" => IndexProduced

C7_Witness ==
    /\ main.pc = "failed" /\ main.raised = "CalledProcessError"
    /\ cmd_log # <<>>
    /\ cmd_log[Len(cmd_log)] = [cmd |-> "tabix", status |-> 1]
    /\ files.gz /\ ~files.idx

\* C8: when the converter completes, bedpe + ".tmp" is gone, pairs.gz and
\* its index exist, and pairs exists iff --keep; tmp is deleted only after
\* the sorted records were appended to pairs, and pairs only after bgzip and
\* pairix succeeded.
C8_Done ==
    conv.pc = "done" =>
        /\ ~pfiles.tmp /\ pfiles.gz /\ pfiles.idx
        /\ pfiles.pairs <=> keep

C8_TmpRemovedAfterAppend ==
    (pfiles.tmp /\ ~pfiles'.tmp) =>
        /\ pfiles.pairs
        /\ pfiles.pairs_lines = Header \o SortedBy("pairs", pfiles.tmp_lines)

C8_PairsRemovedAfterIndex ==
    (pfiles.pairs /\ ~pfiles'.pairs) =>
        /\ pfiles.gz /\ pfiles.idx
        /\ Len(cmd_log) >= 2
        /\ cmd_log[Len(cmd_log) - 1] = [cmd |-> "bgzip", status |-> 0]
        /\ cmd_log[Len(cmd_log)] = [cmd |-> "pairix", status |-> 0]

C8_CleanupOrder ==
    /\ [](C8_Done)
    /\ [][C8_TmpRemovedAfterAppend]_vars
    /\ [][C8_PairsRemovedAfterIndex]_vars

C8_Witness ==
    /\ conv.pc = "done" /\ ~keep /\ ~pfiles.pairs /\ ~pfiles.tmp
    /\ pfiles.gz /\ pfiles.idx /\ Len(bedpe) > 1

\* C9: without redundancy removal the pairs file starts with the two header
\* lines, written before any record, followed by exactly one pairs record
\* per input record, sorted by (chr1, chr2, position1, position2).
PairsKey(line) == <<line[2], line[4], line[3], line[5]>>

KeyLessEq(a, b) ==
    \/ a[1] < b[1]
    \/ a[1] = b[1] /\ a[2] < b[2]
    \/ a[1] = b[1] /\ a[2] = b[2] /\ a[3] < b[3]
    \/ a[1] = b[1] /\ a[2] = b[2] /\ a[3] = b[3] /\ a[4] <= b[4]

C9_HeaderThenSortedRecords ==
    (~remove_redundancy /\ pfiles.pairs) =>
        /\ Len(pfiles.pairs_lines) >= 2
        /\ pfiles.pairs_lines[1] = <<"## pairs format v1.0">>
        /\ pfiles.pairs_lines[2] =
              <<"#columns: readID chr1 position1 chr2 position2 strand1 strand2">>
        /\ conv.pc = "append" => Len(pfiles.pairs_lines) = 2
        /\ conv.pc \notin {"header", "append"} =>
              LET body == SubSeq(pfiles.pairs_lines, 3, Len(pfiles.pairs_lines))
              IN  /\ Len(body) = Len(bedpe)
                  /\ \A r \in DOMAIN bedpe :
                        Cardinality({i \in DOMAIN body :
                            body[i] = <<bedpe[r].name, bedpe[r].chr1,
                                        bedpe[r].pos1, bedpe[r].chr2,
                                        bedpe[r].pos2>>}) = 1
                  /\ \A i \in DOMAIN body, j \in DOMAIN body :
                        i < j => KeyLessEq(PairsKey(body[i]), PairsKey(body[j]))

C9_Witness ==
    /\ ~remove_redundancy /\ pfiles.pairs /\ conv.pc = "rm_tmp"
    /\ Len(bedpe) > 1
    /\ Len(pfiles.pairs_lines) = Len(bedpe) + 2
    /\ KeyLessEq(PairsKey(pfiles.tmp_lines[2]), PairsKey(pfiles.tmp_lines[1]))
    /\ PairsKey(pfiles.tmp_lines[2]) # PairsKey(pfiles.tmp_lines[1])

(***************************************************************************)
(* HicChrMatrix.chromosome and HicChrMatrix.__getitem__, and the library   *)
(* driven by a caller who makes up to MaxOps calls on one matrix.          *)
(***************************************************************************)
\* a[r0:r1, c0:c1] on the array behind ref: a view on the same array; numpy
\* cuts the bounds of a slice at the edges of the array and never raises
Slice(ref, r0, r1, c0, c1) ==
    LET Cut(v, n) == IF v > n THEN n ELSE v
    IN  [base |-> ref.base,
         r0 |-> ref.r0 + Cut(r0, Rows(ref)),
         r1 |-> ref.r0 + Cut(r1, Rows(ref)),
         c0 |-> ref.c0 + Cut(c0, Cols(ref)),
         c1 |-> ref.c0 + Cut(c1, Cols(ref))]

\* lines 147-157
chromosome(self, chr_) ==
    IF chr_ \notin DOMAIN self.axis THEN [raised |-> "KeyError"]
    ELSE LET chr_span == self.axis[chr_]
         IN  [raised |-> "none",
              res |-> HicMatrixInit(Slice(self.matrix,
                                          chr_span[1], chr_span[2] + 1,
                                          chr_span[1], chr_span[2] + 1))]

\* lines 159-170, self[chr_a, chr_b]
__getitem__(self, chr_a, chr_b) ==
    IF chr_a \notin DOMAIN self.axis THEN [raised |-> "KeyError"]
    ELSE IF chr_b \notin DOMAIN self.axis THEN [raised |-> "KeyError"]
    ELSE LET chr_a_span == self.axis[chr_a]
             chr_b_span == self.axis[chr_b]
         IN  [raised |-> "none",
              res |-> HicMatrixInit(Slice(self.matrix,
                                          chr_a_span[1], chr_a_span[2] + 1,
                                          chr_b_span[1], chr_b_span[2] + 1))]

(***************************************************************************)
(* normalization.ice and normalization.remove_zero, which HicMatrix.ice    *)
(* and HicMatrix.remove_zero delegate to.  Both work in place on the       *)
(* wrapper they are given; each operator gives the set of outcomes of a    *)
(* call.                                                                   *)
(***************************************************************************)
\* the cells of the array behind ref that the window covers
Window(ref) ==
    {p \in (ref.r0 .. ref.r1 - 1) \X (ref.c0 .. ref.c1 - 1) : TRUE}

NumLessEq(x, y) == x[1] * y[2] <= y[1] * x[2]

\* the bias vectors a balancing run may end with
Biases(n) == [0 .. n - 1 -> {Num(1), <<1, 2>>}]

\* ICE: the balanced matrix is the input with row i and column j rescaled,
\* cell [i, j] times bias[i] times bias[j]; on completion the flag is set.
\* A run that fails leaves the wrapper as it was.
ice(self, h) ==
    {[raised |-> "ValueError", self |-> self, heap |-> h]} \cup
    {[raised |-> "none",
      self |-> [x \in DOMAIN self \cup {"iced"} |->
                   IF x = "iced" THEN TRUE ELSE self[x]],
      heap |-> [h EXCEPT ![self.matrix.base].cells =
                  [p \in DOMAIN @ |->
                      IF p \in Window(self.matrix)
                      THEN NumMul(@[p],
                                  NumMul(bias[p[1] - self.matrix.r0],
                                         bias[p[2] - self.matrix.c0]))
                      ELSE @[p]]]] :
        bias \in Biases(IF Rows(self.matrix) > Cols(self.matrix)
                        THEN Rows(self.matrix) ELSE Cols(self.matrix))}

Methods == {"min", "max", "mean"}

\* remove_zero: every zero cell becomes the nonzero minimum ("min") or the
\* maximum ("max") of the matrix; any other method is an invalid option.
\* With "min" on a matrix without a nonzero cell there is no fill value: the
\* call may fail or leave the matrix alone.
remove_zero(self, h, method) ==
    LET cells == h[self.matrix.base].cells
        win == Window(self.matrix)
        nonzero == {cells[p] : p \in {q \in win : cells[q] # Num(0)}}
        all == {cells[p] : p \in win}
        Fill(v) == [raised |-> "none",
                    heap |-> [h EXCEPT ![self.matrix.base].cells =
                                [p \in DOMAIN @ |->
                                    IF p \in win /\ @[p] = Num(0)
                                    THEN v ELSE @[p]]]]
        failed == [raised |-> "ValueError", heap |-> h]
    IN  IF method = "min"
        THEN IF nonzero = {} THEN {failed, [raised |-> "none", heap |-> h]}
             ELSE {Fill(CHOOSE v \in nonzero :
                           \A w \in nonzero : NumLessEq(v, w))}
        ELSE IF method = "max"
        THEN IF all = {} THEN {failed}
             ELSE {Fill(CHOOSE v \in all : \A w \in all : NumLessEq(w, v))}
        ELSE {failed}

\* hm.ice()
Ice ==
    /\ pc = "ready" /\ ncalls < MaxOps
    /\ \E r \in ice(objs["hm"], heap) :
          /\ heap' = r.heap
          /\ objs' = [objs EXCEPT !["hm"] = r.self]
          /\ last' = [op |-> "ice", raised |-> r.raised]
    /\ ncalls' = ncalls + 1
    /\ UNCHANGED <<pc, chr_len, bin_size, evars, pvars, cmd_log>>

\* hm.remove_zero(method=method)
RemoveZero ==
    /\ pc = "ready" /\ ncalls < MaxOps
    /\ \E method \in Methods :
       \E r \in remove_zero(objs["hm"], heap, method) :
          /\ heap' = r.heap
          /\ last' = [op |-> "remove_zero", raised |-> r.raised,
                      method |-> method]
    /\ ncalls' = ncalls + 1
    /\ UNCHANGED <<pc, chr_len, bin_size, objs, evars, pvars, cmd_log>>

\* res = hm op hm
Combine ==
    /\ pc = "ready" /\ ncalls < MaxOps
    /\ \E op \in Ops :
          LET r == mat_operation(op, objs["hm"], objs["hm"], heap,
                                 Len(heap) + 1)
          IN  /\ last' = [op |-> op, raised |-> r.raised, left |-> "hm",
                          right |-> "hm"]
              /\ IF r.raised = "none"
                 THEN /\ heap' = Append(heap, r.array)
                      /\ objs' = DictSet(objs, "res", r.res)
                 ELSE UNCHANGED <<heap, objs>>
    /\ ncalls' = ncalls + 1
    /\ UNCHANGED <<pc, chr_len, bin_size, evars, pvars, cmd_log>>

\* hm.locate(chr_x, 0, chr_y, 0, val), the names known to the axis or not
LocateFirst ==
    /\ pc = "ready" /\ ncalls < MaxOps
    /\ \E chr_x \in ChrNames, chr_y \in ChrNames, val \in Increments :
          LET r == locate(objs["hm"], heap, chr_x, 0, chr_y, 0, val)
          IN  /\ heap' = r.heap
              /\ last' = [op |-> "locate", raised |-> r.raised,
                          chr_x |-> chr_x, x |-> 0, chr_y |-> chr_y,
                          y |-> 0, val |-> val]
    /\ ncalls' = ncalls + 1
    /\ UNCHANGED <<pc, chr_len, bin_size, objs, evars, pvars, cmd_log>>

\* sub = hm.chromosome(chr_)
Chromosome ==
    /\ pc = "ready" /\ ncalls < MaxOps
    /\ \E chr_ \in ChrNames :
          LET r == chromosome(objs["hm"], chr_)
          IN  /\ last' = [op |-> "chromosome", raised |-> r.raised,
                          chr_a |-> chr_, chr_b |-> chr_]
              /\ objs' = IF r.raised = "none"
                         THEN DictSet(objs, "sub", r.res) ELSE objs
    /\ ncalls' = ncalls + 1
    /\ UNCHANGED <<pc, chr_len, bin_size, heap, evars, pvars, cmd_log>>

\* sub = hm[chr_a, chr_b]
GetItem ==
    /\ pc = "ready" /\ ncalls < MaxOps
    /\ \E chr_a \in ChrNames, chr_b \in ChrNames :
          LET r == __getitem__(objs["hm"], chr_a, chr_b)
          IN  /\ last' = [op |-> "getitem", raised |-> r.raised,
                          chr_a |-> chr_a, chr_b |-> chr_b]
              /\ objs' = IF r.raised = "none"
                         THEN DictSet(objs, "sub", r.res) ELSE objs
    /\ ncalls' = ncalls + 1
    /\ UNCHANGED <<pc, chr_len, bin_size, heap, evars, pvars, cmd_log>>

\* a caller who only populates the matrix: up to MaxOps locate calls
NextLocate ==
    \/ Construct
    \/ LocateFirst

SpecLocate == InitMatrix /\ [][NextLocate]_vars

NextOps ==
    \/ Construct
    \/ LocateFirst
    \/ Chromosome
    \/ GetItem
    \/ Ice
    \/ RemoveZero
    \/ Combine

SpecOps == InitMatrix /\ [][NextOps]_vars

(***************************************************************************)
(* Claims about sub-matrix extraction.                                     *)
(***************************************************************************)
\* the number of bins the axis gives a chromosome
BinCount(chr_) == hm.axis[chr_][2] - hm.axis[chr_][1] + 1

\* the first call on a new matrix was a sub-matrix extraction that returned
ExtractedFromFresh ==
    /\ pc = "ready" /\ ncalls = 1 /\ last.raised = "none"
    /\ last.op \in {"chromosome", "getitem"}

\* C13: on a freshly constructed HicChrMatrix, chromosome(a) is a square
\* block of side a's bin count, and [a, b] is a block of (a's bin count) rows
\* and (b's bin count) columns, holding exactly the parent cells of those bin
\* ranges.
C13_BlockOfBinRanges ==
    ExtractedFromFresh =>
        LET sub == objs["sub"].matrix
        IN  /\ Rows(sub) = BinCount(last.chr_a)
            /\ Cols(sub) = BinCount(last.chr_b)
            /\ sub.base = hm.matrix.base
            /\ sub.r0 = hm.axis[last.chr_a][1]
            /\ sub.c0 = hm.axis[last.chr_b][1]

\* C15: the iced flag of a chromosome-aware matrix is false right after
\* construction, becomes true only by a successful ice call on that matrix,
\* and once true is never set back to false by locate, remove_zero, ice,
\* sub-matrix extraction or arithmetic on it.
C15_IcedOnlyByIce ==
    [][/\ (pc = "new" /\ pc' = "ready") => ~hm'.iced
       /\ (pc = "ready" /\ pc' = "ready") =>
             /\ hm.iced => hm'.iced
             /\ (~hm.iced /\ hm'.iced) =>
                   (last'.op = "ice" /\ last'.raised = "none")]_vars

\* an iced matrix after a later call of each other kind
C15_Witness ==
    /\ pc = "ready" /\ hm.iced /\ ncalls = MaxOps
    /\ last.op = "remove_zero" /\ last.raised = "none"

\* the names a call was given
NamesOf(c) ==
    IF c.op = "locate" THEN {c.chr_x, c.chr_y}
    ELSE IF c.op \in {"chromosome", "getitem"} THEN {c.chr_a, c.chr_b}
    ELSE {}

\* a step that is a call of chromosome, [a, b] or locate with a name the axis
\* does not have
CallWithUnknownName ==
    /\ pc = "ready" /\ pc' = "ready" /\ ncalls' = ncalls + 1
    /\ \E name \in NamesOf(last') : name \notin DOMAIN hm.axis

\* C18: chromosome(name), the two-name subscript and locate, called with a
\* name absent from the axis, fail with the not-found error (KeyError) and
\* leave the matrix exactly as it was; locate with a known chr_x and an
\* unknown chr_y increments no cell.
C18_UnknownNameRaises ==
    [][CallWithUnknownName =>
          /\ last'.raised = "KeyError"
          /\ heap' = heap
          /\ objs' = objs]_vars

C18_Witness ==
    /\ pc = "ready" /\ ncalls = 1
    /\ last.op = "locate" /\ last.raised = "KeyError"
    /\ last.chr_x \in DOMAIN hm.axis /\ last.chr_y \notin DOMAIN hm.axis
    /\ \A p \in DOMAIN hmArray.cells : hmArray.cells[p] = Num(0)

\* the sum of the cells at the positions ps
RECURSIVE SumOver(_, _)
SumOver(cells, ps) ==
    IF ps = {} THEN Num(0)
    ELSE LET p == CHOOSE q \in ps : TRUE
         IN  NumAdd(cells[p], SumOver(cells, ps \ {p}))

SumCells(arr) == SumOver(arr.cells, DOMAIN arr.cells)

Ceil(len_, bs) == CHOOSE k \in 0 .. len_ : k * bs >= len_ /\ (k = 0 \/ (k - 1) * bs < len_)

\* the table entries that get at least one bin, in table order
RECURSIVE Kept(_, _)
Kept(table, bs) ==
    IF table = <<>> THEN <<>>
    ELSE IF Ceil(Head(table).len, bs) = 0 THEN Kept(Tail(table), bs)
    ELSE <<Head(table)>> \o Kept(Tail(table), bs)

\* C12: the axis gives every non-skipped chromosome of the table an
\* inclusive range (first, last) of ceil(length / bin_size) bins; the first
\* chromosome starts at bin 0, each following one at the previous last + 1 in
\* table order, and the ranges partition 0 .. num_bins - 1.
C12_AxisPartition ==
    Fresh =>
        LET kept == Kept(hm.chr_len, hm.bin_size)
        IN  /\ DOMAIN hm.axis = {kept[i].name : i \in 1 .. Len(kept)}
            /\ \A i \in 1 .. Len(kept) :
                  LET span == hm.axis[kept[i].name]
                  IN  /\ span[2] - span[1] + 1
                            = Ceil(kept[i].len, hm.bin_size)
                      /\ i = 1 => span[1] = 0
                      /\ i > 1 => span[1] = hm.axis[kept[i - 1].name][2] + 1
            /\ \A b \in 0 .. hm.num_bins - 1 :
                  Cardinality({c \in DOMAIN hm.axis :
                                  hm.axis[c][1] <= b /\ b <= hm.axis[c][2]}) = 1
            /\ \A c \in DOMAIN hm.axis :
                  hm.axis[c][1] >= 0 /\ hm.axis[c][2] <= hm.num_bins - 1

C12_Witness ==
    /\ Fresh
    /\ Len(hm.chr_len) = 2
    /\ hm.axis["chr1"] = <<0, 1>>
    /\ hm.axis["chr2"] = <<2, 2>>
    /\ hm.num_bins = 3

\* the constructor was called on a table holding a chromosome of zero bins
ConstructedWithShort ==
    /\ pc \in {"ready", "error"} /\ last.op = "init"
    /\ \E i \in 1 .. Len(chr_len) : NumBins(chr_len[i].len, bin_size) = 0

\* C14: a chromosome of zero bins is skipped without aborting construction:
\* the constructor completes and the chromosome is absent from the axis, the
\* chromosome list and the per-chromosome bin counts.
C14_ShortChromosomeSkipped ==
    ConstructedWithShort =>
        /\ pc = "ready"
        /\ \A i \in 1 .. Len(chr_len) :
              NumBins(chr_len[i].len, bin_size) = 0 =>
                  /\ chr_len[i].name \notin DOMAIN hm.axis
                  /\ \A k \in 1 .. Len(hm.chromosomes) :
                        hm.chromosomes[k] # chr_len[i].name
        /\ Len(hm.lengths) = Len(Kept(chr_len, bin_size))

====
